---- MODULE Spec2Model ----
(***************************************************************************)
(* A model of the easy-modbus frame builder and codecs.                    *)
(*                                                                         *)
(*   frame/mod.rs       Frame (builder, tid table), Head, Function,        *)
(*                      Exception                                          *)
(*   frame/request.rs   request bodies and their Length                    *)
(*   frame/response.rs  response bodies, their Length, Response builders   *)
(*   codec/encoder.rs   the four encoders                                  *)
(*   codec/decoder.rs   the four decoders                                  *)
(*                                                                         *)
(* Bytes are naturals below 256, u16 values naturals below 65536, a        *)
(* buffer (BytesMut, Bytes, Vec<u8>) is a sequence of bytes.               *)
(***************************************************************************)
EXTENDS Naturals, Sequences, FiniteSets, TLC

VARIABLES
    version,    \* Frame.version of the builder in use: "Tcp" or "Rtu"
    tid_map,    \* Frame.tid_map: unit id -> last transaction id issued
    calls,      \* history: builder calls made so far, per unit id
    budget,     \* the builder calls the caller has still to make
    frame,      \* the Request/Response returned by the last builder call
    builder,    \* which builder returned it ("Frame", "Response", "none")
    dst0,       \* the buffer as it was before the last encode call
    buf,        \* the byte buffer the codecs write to and read from
    enc,        \* the codec of the last encode call
    dec,        \* the codec of the decode calls
    result,     \* what the last decode call returned
    decodes,    \* history: decode calls since the last encode call
    pc,         \* the last call: "ready", "built", "encoded", "decoded", "panic"
    src0,       \* the buffer as it was at the entry of the last decode call
    wire,       \* bytes sent that the receive buffer does not hold yet
    probe,      \* how the bytes in the buffer came about
    lock,       \* the thread that holds the Mutex of tid_map, or "none"
    threads,    \* of each thread that shares the Frame: its place in a builder call
    issued,     \* history: per unit id, the ids the builder calls returned
    sent,       \* history: the frames whose bytes were put on the line, in order
    outs        \* history: what the decode calls on the delivered line returned

\* the receive side of a connection
recvVars == <<src0, wire, probe, sent, outs>>

\* the frames put on a line and the results read from it
lineVars == <<sent, outs>>

\* the threads that share one Frame
threadVars == <<lock, threads, issued>>

vars ==
    <<version, tid_map, calls, budget, frame, builder, dst0, buf, enc, dec,
      result, decodes, pc, src0, wire, probe, lock, threads, issued, sent,
      outs>>

----------------------------------------------------------------------------
(* Integer widths *)

U8 == 2^8

U16 == 2^16

\* `x as u8`
AsU8(x) == x % U8

\* `x as u16`
AsU16(x) == x % U16

\* BufMut::put_u16: big-endian
PutU16(x) == <<x \div 256, x % 256>>

\* Buf::get_u16 on the first two bytes of b: big-endian
GetU16(b) == b[1] * 256 + b[2]

\* the bytes of b after its first n
Drop(b, n) == SubSeq(b, n + 1, Len(b))

\* the first n bytes of b
Take(b, n) == SubSeq(b, 1, n)

RECURSIVE Xor(_, _)
\* bitwise exclusive or of two naturals
Xor(a, b) ==
    IF a = 0 THEN b
    ELSE IF b = 0 THEN a
    ELSE ((a + b) % 2) + 2 * Xor(a \div 2, b \div 2)

----------------------------------------------------------------------------
(* CRC16 engine (util/crc): initial register 0xFFFF, reflected polynomial  *)
(* 0xA001, least-significant bit first, no final XOR.                      *)

CrcPoly == 40961

CrcInit == 65535

\* one shift of the register
CrcShift(crc) ==
    IF crc % 2 = 1 THEN Xor(crc \div 2, CrcPoly) ELSE crc \div 2

\* eight shifts of the register
CrcShift8(crc) ==
    CrcShift(CrcShift(CrcShift(CrcShift(
    CrcShift(CrcShift(CrcShift(CrcShift(crc))))))))

\* the eight shifts of each value of the low byte, computed once
CrcTable == [b \in 0..255 |-> CrcShift8(b)]

\* one byte folded into the register: xor into the low byte, then eight
\* shifts (the shifts of the low byte come from CrcTable; the high byte moves
\* down unchanged)
CrcByte(crc, x) == Xor(crc \div 256, CrcTable[Xor(crc % 256, x)])

RECURSIVE CrcFold(_, _, _, _)
\* the register after the bytes data[lo..hi] are folded in, in order, starting
\* from crc: the loop over the bytes, split in halves to bound the depth of
\* the recursion (the left half is computed before the right half starts)
CrcFold(crc, data, lo, hi) ==
    IF lo > hi THEN crc
    ELSE IF lo = hi THEN CrcByte(crc, data[lo])
    ELSE LET left == CrcFold(crc, data, lo, (lo + hi) \div 2)
         IN  IF left >= 0
             THEN CrcFold(left, data, ((lo + hi) \div 2) + 1, hi)
             ELSE left

\* crc::compute / crc_util::compute_crc
crc_compute(data) == CrcFold(CrcInit, data, 1, Len(data))

\* crc::check
crc_check(data, candidate) == crc_compute(data) = candidate

----------------------------------------------------------------------------
(* frame/mod.rs: Function, Exception, Head *)

Functions ==
    {"ReadCoils", "ReadDiscreteInputs", "ReadMultipleHoldingRegisters",
     "ReadInputRegisters", "WriteSingleCoil", "WriteSingleHoldingRegister",
     "WriteMultipleCoils", "WriteMultipleHoldingRegisters"}

Exceptions ==
    {"IllegalFunction", "IllegalDataAddress", "IllegalDataValue",
     "SlaveDeviceFailure", "Acknowledge"}

\* Function::to_code
Function_to_code(f) ==
    CASE f = "ReadCoils" -> 1
      [] f = "ReadDiscreteInputs" -> 2
      [] f = "ReadMultipleHoldingRegisters" -> 3
      [] f = "ReadInputRegisters" -> 4
      [] f = "WriteSingleCoil" -> 5
      [] f = "WriteSingleHoldingRegister" -> 6
      [] f = "WriteMultipleCoils" -> 15
      [] f = "WriteMultipleHoldingRegisters" -> 16

\* Exception::to_code
Exception_to_code(e) ==
    CASE e = "IllegalFunction" -> 1
      [] e = "IllegalDataAddress" -> 2
      [] e = "IllegalDataValue" -> 3
      [] e = "SlaveDeviceFailure" -> 4
      [] e = "Acknowledge" -> 5

\* Exception::from_code; "None" is Option::None
Exception_from_code(code) ==
    CASE code = 1 -> "IllegalDataValue"
      [] code = 2 -> "IllegalDataAddress"
      [] code = 3 -> "IllegalDataValue"
      [] code = 4 -> "SlaveDeviceFailure"
      [] code = 5 -> "Acknowledge"
      [] OTHER -> "None"

\* Head::new; body_length + 2 is a u16 sum (it wraps where it is not checked)
Head_new(tid, uid, function, body_length, ver, is_exception) ==
    [tid |-> tid, pid |-> 0, length |-> AsU16(body_length + 2), uid |-> uid,
     function |-> function, version |-> ver, is_exception |-> is_exception]

\* Head::body_length
Head_body_length(head, body_length) ==
    [head EXCEPT !.length = AsU16(body_length + 2)]

----------------------------------------------------------------------------
(* frame/request.rs: the request bodies *)

ReadCoilsRequest_new(first_address, coils_number) ==
    [first_address |-> first_address, coils_number |-> coils_number]

ReadDiscreteInputsRequest_new(first_address, discrete_inputs_number) ==
    [first_address |-> first_address,
     discrete_inputs_number |-> discrete_inputs_number]

ReadMultipleHoldingRegistersRequest_new(first_address, registers_number) ==
    [first_address |-> first_address, registers_number |-> registers_number]

ReadInputRegistersRequest_new(first_address, registers_number) ==
    [first_address |-> first_address, registers_number |-> registers_number]

WriteSingleCoilRequest_new(coil_address, value) ==
    [coil_address |-> coil_address, value |-> value]

WriteSingleHoldingRegisterRequest_new(register_address, value) ==
    [register_address |-> register_address, value |-> value]

WriteMultipleCoilsRequest_new(first_address, coils_number, values) ==
    [first_address |-> first_address, coils_number |-> coils_number,
     bytes_number |-> AsU8(Len(values)), values |-> values]

WriteMultipleHoldingRegistersRequest_new(first_address, values) ==
    [first_address |-> first_address,
     registers_number |-> AsU16(Len(values)) \div 2,
     bytes_number |-> AsU8(Len(values)), values |-> values]

\* Length::len of a request body, as the unbounded sum: the u16 result is
\* AsU16 of it, and the addition overflows when it is U16 or more
RequestLen(function, body) ==
    IF function \in {"WriteMultipleCoils", "WriteMultipleHoldingRegisters"}
    THEN 5 + AsU16(Len(body.values))
    ELSE 4

----------------------------------------------------------------------------
(* frame/response.rs: the response bodies *)

ReadCoilsResponse_new(values) ==
    [bytes_number |-> AsU8(Len(values)), values |-> values]

\* ReadDiscreteInputsResponse::new(inputs_number, values) of response.rs
ReadDiscreteInputsResponse_new(inputs_number, values) ==
    [bytes_number |-> AsU8(inputs_number \div 8), values |-> values]

\* ReadDiscreteInputsResponse::new(values), the one-argument constructor that
\* Frame::read_discrete_response calls
ReadDiscreteInputsResponse_from_values(values) ==
    [bytes_number |-> AsU8(Len(values)), values |-> values]

ReadMultipleHoldingRegistersResponse_new(values) ==
    [bytes_number |-> AsU8(Len(values)), values |-> values]

ReadInputRegistersResponse_new(values) ==
    [bytes_number |-> AsU8(Len(values)), values |-> values]

WriteSingleCoilResponse_new(coil_address, value) ==
    [coil_address |-> coil_address, value |-> value]

WriteSingleHoldingRegisterResponse_new(register_address, value) ==
    [register_address |-> register_address, value |-> value]

WriteMultipleCoilsResponse_new(first_address, coils_number) ==
    [first_address |-> first_address, coils_number |-> coils_number]

WriteMultipleHoldingRegistersResponse_new(first_address, registers_number) ==
    [first_address |-> first_address, registers_number |-> registers_number]

\* ExceptionResponse::new
ExceptionResponse_new(exception) == [exception |-> exception]

ReadFunctions ==
    {"ReadCoils", "ReadDiscreteInputs", "ReadMultipleHoldingRegisters",
     "ReadInputRegisters"}

\* Length::len of a response body, as the unbounded sum (see RequestLen)
ResponseLen(function, body) ==
    IF function \in ReadFunctions THEN 1 + AsU16(Len(body.values)) ELSE 4

\* Length::len of ExceptionResponse
ExceptionResponseLen(body) == 1

----------------------------------------------------------------------------
(* Request and Response values: the enum variant, its Head and its body *)

NoFrame == [kind |-> "None"]

Request(variant, head, body) ==
    [kind |-> "Request", variant |-> variant, head |-> head, body |-> body]

Response(variant, head, body) ==
    [kind |-> "Response", variant |-> variant, head |-> head, body |-> body]

----------------------------------------------------------------------------
(* frame/mod.rs: the Frame builder *)

MaxTid == 65535

\* the match on map.get(&unit_id) in Frame::get_tid: the id to issue
get_tid_value(map, unit_id) ==
    IF unit_id \notin DOMAIN map THEN 1
    ELSE IF map[unit_id] < MaxTid THEN map[unit_id] + 1
    ELSE 1

\* HashMap::insert
HashMap_insert(map, k, v) ==
    [u \in DOMAIN map \cup {k} |-> IF u = k THEN v ELSE map[u]]

\* a lock() that returns whether or not another thread holds the Mutex
MutexFree_always(holder) == TRUE

\* Mutex::lock returns once no thread holds the Mutex
MutexFree(holder) == holder = "none"

\* Frame::get_tid that wraps as a u16 does, from 0xFFFF to 0
Frame_get_tid_wraps_to_zero(ver, map, unit_id) ==
    IF ver = "Rtu" THEN [value |-> 0, map |-> map]
    ELSE LET value == IF unit_id \notin DOMAIN map THEN 1
                      ELSE AsU16(map[unit_id] + 1)
         IN  [value |-> value,
              map |-> [u \in DOMAIN map \cup {unit_id} |->
                          IF u = unit_id THEN value ELSE map[u]]]

\* Frame::get_tid that counts for an RTU builder as for a TCP one
Frame_get_tid_counts_on_rtu(ver, map, unit_id) ==
    LET value == IF unit_id \notin DOMAIN map THEN 1
                 ELSE IF map[unit_id] < MaxTid THEN map[unit_id] + 1
                 ELSE 1
    IN  [value |-> IF ver = "Rtu" THEN 0 ELSE value,
         map |-> [u \in DOMAIN map \cup {unit_id} |->
                     IF u = unit_id THEN value ELSE map[u]]]

\* Frame::get_tid with one counter for all unit ids
Frame_get_tid_one_counter(ver, map, unit_id) ==
    IF ver = "Rtu" THEN [value |-> 0, map |-> map]
    ELSE LET last == IF DOMAIN map = {} THEN 0
                     ELSE CHOOSE m \in {map[u] : u \in DOMAIN map} :
                            \A u \in DOMAIN map : map[u] <= m
             value == IF last < MaxTid THEN last + 1 ELSE 1
         IN  [value |-> value,
              map |-> [u \in DOMAIN map \cup {unit_id} |->
                          IF u = unit_id THEN value ELSE map[u]]]

\* Frame::get_tid: the id returned and the table after the call
Frame_get_tid(ver, map, unit_id) ==
    IF ver = "Rtu" THEN [value |-> 0, map |-> map]
    ELSE LET value == IF unit_id \notin DOMAIN map THEN 1
                      ELSE IF map[unit_id] < MaxTid THEN map[unit_id] + 1
                      ELSE 1
         IN  [value |-> value,
              map |-> [u \in DOMAIN map \cup {unit_id} |->
                          IF u = unit_id THEN value ELSE map[u]]]

\* Frame::head giving an exception response the id issued last for the unit
Frame_head_answers_last(ver, map, uid, function, body_length, is_exception) ==
    Head_new(IF is_exception /\ ver = "Tcp"
             THEN (IF uid \in DOMAIN map THEN map[uid] ELSE 0)
             ELSE Frame_get_tid(ver, map, uid).value,
             uid, function, body_length, ver, is_exception)

\* Frame::head
Frame_head(ver, map, uid, function, body_length, is_exception) ==
    Head_new(Frame_get_tid(ver, map, uid).value, uid, function, body_length,
             ver, is_exception)

read_coils_request(ver, map, unit_id, first_address, number) ==
    LET request_body == ReadCoilsRequest_new(first_address, number)
        head == Frame_head(ver, map, unit_id, "ReadCoils",
                           AsU16(RequestLen("ReadCoils", request_body)), FALSE)
    IN  Request("ReadCoils", head, request_body)

read_discrete_request(ver, map, unit_id, first_address, number) ==
    LET request_body == ReadDiscreteInputsRequest_new(first_address, number)
        head == Frame_head(ver, map, unit_id, "ReadDiscreteInputs",
                    AsU16(RequestLen("ReadDiscreteInputs", request_body)), FALSE)
    IN  Request("ReadDiscreteInputs", head, request_body)

read_multiple_holding_registers_request(ver, map, unit_id, first_address, number) ==
    LET request_body ==
            ReadMultipleHoldingRegistersRequest_new(first_address, number)
        head == Frame_head(ver, map, unit_id, "ReadMultipleHoldingRegisters",
                    AsU16(RequestLen("ReadMultipleHoldingRegisters", request_body)),
                    FALSE)
    IN  Request("ReadMultipleHoldingRegisters", head, request_body)

read_input_registers_request(ver, map, unit_id, first_address, number) ==
    LET request_body == ReadInputRegistersRequest_new(first_address, number)
        head == Frame_head(ver, map, unit_id, "ReadInputRegisters",
                    AsU16(RequestLen("ReadInputRegisters", request_body)), FALSE)
    IN  Request("ReadInputRegisters", head, request_body)

write_single_coil_request(ver, map, unit_id, address, value) ==
    LET request_body == WriteSingleCoilRequest_new(address, value)
        head == Frame_head(ver, map, unit_id, "WriteSingleCoil",
                    AsU16(RequestLen("WriteSingleCoil", request_body)), FALSE)
    IN  Request("WriteSingleCoil", head, request_body)

write_single_holding_register_request(ver, map, unit_id, address, value) ==
    LET request_body == WriteSingleHoldingRegisterRequest_new(address, value)
        head == Frame_head(ver, map, unit_id, "WriteSingleHoldingRegister",
                    AsU16(RequestLen("WriteSingleHoldingRegister", request_body)),
                    FALSE)
    IN  Request("WriteSingleHoldingRegister", head, request_body)

write_multiple_coils_request(ver, map, unit_id, address, coils_number, values) ==
    LET request_body == WriteMultipleCoilsRequest_new(address, coils_number, values)
        head == Frame_head(ver, map, unit_id, "WriteMultipleCoils",
                    AsU16(RequestLen("WriteMultipleCoils", request_body)), FALSE)
    IN  Request("WriteMultipleCoils", head, request_body)

write_multiple_holding_registers_request(ver, map, unit_id, address, values) ==
    LET request_body == WriteMultipleHoldingRegistersRequest_new(address, values)
        head == Frame_head(ver, map, unit_id, "WriteMultipleHoldingRegisters",
                    AsU16(RequestLen("WriteMultipleHoldingRegisters", request_body)),
                    FALSE)
    IN  Request("WriteMultipleHoldingRegisters", head, request_body)

read_coils_response(ver, map, unit_id, values) ==
    LET response_body == ReadCoilsResponse_new(values)
        head == Frame_head(ver, map, unit_id, "ReadCoils",
                    AsU16(ResponseLen("ReadCoils", response_body)), FALSE)
    IN  Response("ReadCoils", head, response_body)

read_discrete_response(ver, map, unit_id, values) ==
    LET response_body == ReadDiscreteInputsResponse_from_values(values)
        head == Frame_head(ver, map, unit_id, "ReadDiscreteInputs",
                    AsU16(ResponseLen("ReadDiscreteInputs", response_body)), FALSE)
    IN  Response("ReadDiscreteInputs", head, response_body)

read_holding_register_response(ver, map, unit_id, values) ==
    LET response_body == ReadMultipleHoldingRegistersResponse_new(values)
        head == Frame_head(ver, map, unit_id, "ReadMultipleHoldingRegisters",
                    AsU16(ResponseLen("ReadMultipleHoldingRegisters", response_body)),
                    FALSE)
    IN  Response("ReadMultipleHoldingRegisters", head, response_body)

read_input_register_response(ver, map, unit_id, values) ==
    LET response_body == ReadInputRegistersResponse_new(values)
        head == Frame_head(ver, map, unit_id, "ReadInputRegisters",
                    AsU16(ResponseLen("ReadInputRegisters", response_body)), FALSE)
    IN  Response("ReadInputRegisters", head, response_body)

write_single_coil_response(ver, map, unit_id, address, value) ==
    LET response_body == WriteSingleCoilResponse_new(address, value)
        head == Frame_head(ver, map, unit_id, "WriteSingleCoil",
                    AsU16(ResponseLen("WriteSingleCoil", response_body)), FALSE)
    IN  Response("WriteSingleCoil", head, response_body)

write_single_holding_register_response(ver, map, unit_id, address, value) ==
    LET response_body == WriteSingleHoldingRegisterResponse_new(address, value)
        head == Frame_head(ver, map, unit_id, "WriteSingleHoldingRegister",
                    AsU16(ResponseLen("WriteSingleHoldingRegister", response_body)),
                    FALSE)
    IN  Response("WriteSingleHoldingRegister", head, response_body)

write_multiple_coils_response(ver, map, unit_id, address, number) ==
    LET response_body == WriteMultipleCoilsResponse_new(address, number)
        head == Frame_head(ver, map, unit_id, "WriteMultipleCoils",
                    AsU16(ResponseLen("WriteMultipleCoils", response_body)), FALSE)
    IN  Response("WriteMultipleCoils", head, response_body)

write_multiple_holding_registers_response(ver, map, unit_id, address, number) ==
    LET response_body == WriteMultipleHoldingRegistersResponse_new(address, number)
        head == Frame_head(ver, map, unit_id, "WriteMultipleHoldingRegisters",
                    AsU16(ResponseLen("WriteMultipleHoldingRegisters", response_body)),
                    FALSE)
    IN  Response("WriteMultipleHoldingRegisters", head, response_body)

exception_response(ver, map, unit_id, function, exception) ==
    LET response_body == ExceptionResponse_new(exception)
        head == Frame_head(ver, map, unit_id, function,
                           ExceptionResponseLen(response_body), TRUE)
    IN  Response("Exception", head, response_body)

----------------------------------------------------------------------------
(* frame/response.rs: the Response builders that take the transaction id   *)

\* Response::read_coils
Response_read_coils(tid, uid, values) ==
    LET response == ReadCoilsResponse_new(values)
        head == Head_new(tid, uid, "ReadCoils",
                         AsU16(ResponseLen("ReadCoils", response)), "Tcp", FALSE)
    IN  Response("ReadCoils", head, response)

\* Response::read_discrete
Response_read_discrete(tid, uid, number, values) ==
    LET response == ReadDiscreteInputsResponse_new(number, values)
        head == Head_new(tid, uid, "ReadDiscreteInputs",
                         AsU16(ResponseLen("ReadDiscreteInputs", response)),
                         "Tcp", FALSE)
    IN  Response("ReadDiscreteInputs", head, response)

----------------------------------------------------------------------------
(* codec/encoder.rs *)

\* From<Head> for BytesMut
HeadBytes(head) ==
    LET function_code == IF head.is_exception
                         THEN AsU8(Function_to_code(head.function) + 128)
                         ELSE Function_to_code(head.function)
    IN  (IF head.version = "Tcp"
         THEN PutU16(head.tid) \o PutU16(head.pid) \o PutU16(head.length)
         ELSE <<>>)
        \o <<head.uid, function_code>>

\* From<...Request> for BytesMut, by variant
RequestBodyBytes(variant, body) ==
    CASE variant = "ReadCoils" ->
            PutU16(body.first_address) \o PutU16(body.coils_number)
      [] variant = "ReadDiscreteInputs" ->
            PutU16(body.first_address) \o PutU16(body.discrete_inputs_number)
      [] variant = "ReadMultipleHoldingRegisters" ->
            PutU16(body.first_address) \o PutU16(body.registers_number)
      [] variant = "ReadInputRegisters" ->
            PutU16(body.first_address) \o PutU16(body.registers_number)
      [] variant = "WriteSingleCoil" ->
            PutU16(body.coil_address) \o PutU16(body.value)
      [] variant = "WriteSingleHoldingRegister" ->
            PutU16(body.register_address) \o PutU16(body.value)
      [] variant = "WriteMultipleCoils" ->
            PutU16(body.first_address) \o PutU16(body.coils_number)
            \o <<body.bytes_number>> \o body.values
      [] variant = "WriteMultipleHoldingRegisters" ->
            PutU16(body.first_address) \o PutU16(body.registers_number)
            \o <<body.bytes_number>> \o body.values

\* From<...Response> for BytesMut, by variant
ResponseBodyBytes(variant, body) ==
    CASE variant \in ReadFunctions -> <<body.bytes_number>> \o body.values
      [] variant = "WriteSingleCoil" ->
            PutU16(body.coil_address) \o PutU16(body.value)
      [] variant = "WriteSingleHoldingRegister" ->
            PutU16(body.register_address) \o PutU16(body.value)
      [] variant = "WriteMultipleCoils" ->
            PutU16(body.first_address) \o PutU16(body.coils_number)
      [] variant = "WriteMultipleHoldingRegisters" ->
            PutU16(body.first_address) \o PutU16(body.registers_number)
      [] variant = "Exception" -> <<Exception_to_code(body.exception)>>

\* the body bytes of a Request or Response
BodyBytes(item) ==
    IF item.kind = "Request" THEN RequestBodyBytes(item.variant, item.body)
    ELSE ResponseBodyBytes(item.variant, item.body)

request_to_bytesmut(item, dst) ==
    dst \o HeadBytes(item.head) \o RequestBodyBytes(item.variant, item.body)

response_to_bytesmut(item, dst) ==
    dst \o HeadBytes(item.head) \o ResponseBodyBytes(item.variant, item.body)

\* Encoder<Request> for RtuClientCodec: the buffer after the call
RtuClientCodec_encode(item, dst) ==
    LET d == request_to_bytesmut(item, dst)
    IN  d \o PutU16(crc_compute(d))

\* Encoder<Response> for RtuServerCodec
RtuServerCodec_encode(item, dst) ==
    LET d == response_to_bytesmut(item, dst)
    IN  d \o PutU16(crc_compute(d))

\* Encoder<Request> for TcpClientCodec
TcpClientCodec_encode(item, dst) == request_to_bytesmut(item, dst)

\* Encoder<Response> for TcpServerCodec
TcpServerCodec_encode(item, dst) == response_to_bytesmut(item, dst)

----------------------------------------------------------------------------
(* codec/decoder.rs *)

\* What a decode call returns, with the buffer it leaves: Ok(None), Ok(Some),
\* Err, or a panic (the call does not return).
DecNone(rest) == [out |-> "None", item |-> NoFrame, err |-> "", rest |-> rest]

\* Ok(Some(item)) of a decoder that empties the buffer
DecSome_drains(item, rest) ==
    [out |-> "Some", item |-> item, err |-> "", rest |-> <<>>]

DecSome(item, rest) == [out |-> "Some", item |-> item, err |-> "", rest |-> rest]

\* Err(e) of a decoder that empties the buffer
DecErr_drains(e, rest) == [out |-> "Err", item |-> NoFrame, err |-> e, rest |-> <<>>]

DecErr(e, rest) == [out |-> "Err", item |-> NoFrame, err |-> e, rest |-> rest]

DecPanic(why, rest) == [out |-> "Panic", item |-> NoFrame, err |-> why, rest |-> rest]

\* a parsed value, or the panic of a Buf read past the end / an unwrap
Parsed(v) == [ok |-> TRUE, v |-> v]

ParsePanic == [ok |-> FALSE]

\* TryFrom<u8> for Function; "Err" is the io::Error
Function_try_from_accepts_seven(value) ==
    CASE value = 1 -> "ReadCoils"
      [] value = 2 -> "ReadDiscreteInputs"
      [] value = 3 -> "ReadMultipleHoldingRegisters"
      [] value = 4 -> "ReadInputRegisters"
      [] value = 5 -> "WriteSingleCoil"
      [] value \in {6, 7} -> "WriteSingleHoldingRegister"
      [] value = 15 -> "WriteMultipleCoils"
      [] value = 16 -> "WriteMultipleHoldingRegisters"
      [] OTHER -> "Err"

Function_try_from(value) ==
    CASE value = 1 -> "ReadCoils"
      [] value = 2 -> "ReadDiscreteInputs"
      [] value = 3 -> "ReadMultipleHoldingRegisters"
      [] value = 4 -> "ReadInputRegisters"
      [] value = 5 -> "WriteSingleCoil"
      [] value = 6 -> "WriteSingleHoldingRegister"
      [] value = 15 -> "WriteMultipleCoils"
      [] value = 16 -> "WriteMultipleHoldingRegisters"
      [] OTHER -> "Err"

\* TryFrom<u8> for Exception; "Err" is the io::Error
Exception_try_from(value) ==
    IF Exception_from_code(value) = "None" THEN "Err"
    ELSE Exception_from_code(value)

\* get_function without the exception flag
get_function_never_exception(function_code) ==
    IF function_code <= 128
    THEN [function |-> Function_try_from(function_code), is_exception |-> FALSE]
    ELSE [function |-> Function_try_from(function_code - 128),
          is_exception |-> FALSE]

\* get_function
get_function(function_code) ==
    IF function_code <= 128
    THEN [function |-> Function_try_from(function_code), is_exception |-> FALSE]
    ELSE [function |-> Function_try_from(function_code - 128),
          is_exception |-> TRUE]

\* Head::tcp_try_from with the length read from the protocol id's bytes
Head_tcp_try_from_pid_as_length(b) ==
    LET f == get_function(b[8])
    IN  [tid |-> GetU16(b), pid |-> GetU16(Drop(b, 2)),
         length |-> GetU16(Drop(b, 2)), uid |-> b[7],
         function |-> f.function, version |-> "Tcp",
         is_exception |-> f.is_exception]

\* Head::tcp_try_from on the 8 header bytes; function "Err" is the Err result
Head_tcp_try_from(b) ==
    LET f == get_function(b[8])
    IN  [tid |-> GetU16(b), pid |-> GetU16(Drop(b, 2)),
         length |-> GetU16(Drop(b, 4)), uid |-> b[7],
         function |-> f.function, version |-> "Tcp",
         is_exception |-> f.is_exception]

\* Head::rtu_try_from on the 2 header bytes
Head_rtu_try_from(b) ==
    LET f == get_function(b[2])
    IN  [tid |-> 0, pid |-> 0, length |-> 0, uid |-> b[1],
         function |-> f.function, version |-> "Rtu",
         is_exception |-> f.is_exception]

\* From<Bytes> for the request bodies, by function
RequestBodyFrom(function, b) ==
    IF function \in {"WriteMultipleCoils", "WriteMultipleHoldingRegisters"}
    THEN IF Len(b) < 5 THEN ParsePanic
         ELSE IF function = "WriteMultipleCoils"
         THEN Parsed([first_address |-> GetU16(b),
                      coils_number |-> GetU16(Drop(b, 2)),
                      bytes_number |-> b[5], values |-> Drop(b, 5)])
         ELSE Parsed([first_address |-> GetU16(b),
                      registers_number |-> GetU16(Drop(b, 2)),
                      bytes_number |-> b[5], values |-> Drop(b, 5)])
    ELSE IF Len(b) < 4 THEN ParsePanic
    ELSE CASE function = "ReadCoils" ->
                 Parsed(ReadCoilsRequest_new(GetU16(b), GetU16(Drop(b, 2))))
           [] function = "ReadDiscreteInputs" ->
                 Parsed(ReadDiscreteInputsRequest_new(GetU16(b), GetU16(Drop(b, 2))))
           [] function = "ReadMultipleHoldingRegisters" ->
                 Parsed(ReadMultipleHoldingRegistersRequest_new(
                            GetU16(b), GetU16(Drop(b, 2))))
           [] function = "ReadInputRegisters" ->
                 Parsed(ReadInputRegistersRequest_new(GetU16(b), GetU16(Drop(b, 2))))
           [] function = "WriteSingleCoil" ->
                 Parsed(WriteSingleCoilRequest_new(GetU16(b), GetU16(Drop(b, 2))))
           [] function = "WriteSingleHoldingRegister" ->
                 Parsed(WriteSingleHoldingRegisterRequest_new(
                            GetU16(b), GetU16(Drop(b, 2))))

\* From<Bytes> for the response bodies, by function
ResponseBodyFrom(function, b) ==
    IF function \in ReadFunctions
    THEN IF Len(b) < 1 THEN ParsePanic
         ELSE Parsed([bytes_number |-> b[1], values |-> Drop(b, 1)])
    ELSE IF Len(b) < 4 THEN ParsePanic
    ELSE CASE function = "WriteSingleCoil" ->
                 Parsed(WriteSingleCoilResponse_new(GetU16(b), GetU16(Drop(b, 2))))
           [] function = "WriteSingleHoldingRegister" ->
                 Parsed(WriteSingleHoldingRegisterResponse_new(
                            GetU16(b), GetU16(Drop(b, 2))))
           [] function = "WriteMultipleCoils" ->
                 Parsed(WriteMultipleCoilsResponse_new(GetU16(b), GetU16(Drop(b, 2))))
           [] function = "WriteMultipleHoldingRegisters" ->
                 Parsed(WriteMultipleHoldingRegistersResponse_new(
                            GetU16(b), GetU16(Drop(b, 2))))

\* From<Bytes> for ExceptionResponse: get_u8, try_from, unwrap
ExceptionResponseFrom(b) ==
    IF Len(b) < 1 THEN ParsePanic
    ELSE IF Exception_try_from(b[1]) = "Err" THEN ParsePanic
    ELSE Parsed([exception |-> Exception_try_from(b[1])])

\* get_request
get_request(src, head) ==
    LET body == RequestBodyFrom(head.function, src)
    IN  IF body.ok THEN Parsed(Request(head.function, head, body.v))
        ELSE ParsePanic

\* get_response
get_response(src, head) ==
    IF head.is_exception
    THEN LET body == ExceptionResponseFrom(src)
         IN  IF body.ok THEN Parsed(Response("Exception", head, body.v))
             ELSE ParsePanic
    ELSE LET body == ResponseBodyFrom(head.function, src)
         IN  IF body.ok THEN Parsed(Response(head.function, head, body.v))
             ELSE ParsePanic

\* the RTU client decoder's length with the count byte itself left out
RtuClientBodyLen_without_count_byte(head, src) ==
    IF head.is_exception THEN 1
    ELSE IF head.function \in ReadFunctions
    THEN (IF Len(src) >= 1 THEN src[1] ELSE 0)
    ELSE 4

\* the RTU server decoder's length with the count read one byte early
RtuServerBodyLen_count_one_early(head, src) ==
    IF head.function \in {"WriteMultipleCoils", "WriteMultipleHoldingRegisters"}
    THEN (IF Len(src) >= 4 THEN src[4] + 5 ELSE 0)
    ELSE 4

\* the body length the RTU client decoder infers (src: the buffer after the
\* two head bytes)
RtuClientBodyLen(head, src) ==
    IF head.is_exception THEN 1
    ELSE IF head.function \in ReadFunctions
    THEN (IF Len(src) >= 1 THEN src[1] + 1 ELSE 0)
    ELSE 4

\* the body length the RTU server decoder infers
RtuServerBodyLen(head, src) ==
    IF head.function \in {"WriteMultipleCoils", "WriteMultipleHoldingRegisters"}
    THEN (IF Len(src) >= 5 THEN src[5] + 5 ELSE 0)
    ELSE 4

\* a decoder that returns every frame, whatever its trailer
RtuChecked_unchecked(data, crc) == TRUE

\* the test of the trailer that both RTU decoders make before returning a frame
RtuChecked(data, crc) == crc_check(data, crc)

\* Decoder for RtuClientCodec
RtuClientCodec_decode(src) ==
    IF Len(src) < 2 THEN DecNone(src)
    ELSE LET head_bytes == Take(src, 2)
             s1 == Drop(src, 2)
             head0 == Head_rtu_try_from(head_bytes)
         IN  IF head0.function = "Err" THEN DecErr("InvalidFunctionCode", s1)
             ELSE LET len == RtuClientBodyLen(head0, s1)
                  IN  IF Len(s1) < len + 2 THEN DecNone(s1)
                      ELSE LET head == Head_body_length(head0, AsU16(len))
                               body_bytes == Take(s1, len)
                               s2 == Drop(s1, len)
                               response == get_response(body_bytes, head)
                               crc == GetU16(s2)
                           IN  IF ~response.ok THEN DecPanic("body", s2)
                               ELSE IF RtuChecked(head_bytes \o body_bytes, crc)
                               THEN DecSome(response.v, Drop(s2, 2))
                               ELSE DecErr("InvalidChecksum", Drop(s2, 2))

\* Decoder for RtuServerCodec
RtuServerCodec_decode(src) ==
    IF Len(src) < 2 THEN DecNone(src)
    ELSE LET head_bytes == Take(src, 2)
             s1 == Drop(src, 2)
             head0 == Head_rtu_try_from(head_bytes)
         IN  IF head0.function = "Err" THEN DecErr("InvalidFunctionCode", s1)
             ELSE LET len == RtuServerBodyLen(head0, s1)
                  IN  IF Len(s1) < len + 2 THEN DecNone(s1)
                      ELSE LET head == Head_body_length(head0, AsU16(len))
                               body_bytes == Take(s1, len)
                               s2 == Drop(s1, len)
                               request == get_request(body_bytes, head)
                               crc == GetU16(s2)
                           IN  IF ~request.ok THEN DecPanic("body", s2)
                               ELSE IF RtuChecked(head_bytes \o body_bytes, crc)
                               THEN DecSome(request.v, Drop(s2, 2))
                               ELSE DecErr("InvalidChecksum", Drop(s2, 2))

\* the least buffer length with which the TCP client decoder goes on
TcpClientMinLen == 4

\* the least buffer length with which the TCP server decoder goes on
TcpServerMinLen == 8

\* Decoder for TcpClientCodec. copy_to_bytes panics when the buffer holds
\* fewer bytes than asked for; head.length - 2 panics (checked build) or wraps
\* to a length no buffer holds (unchecked build) when head.length < 2.
TcpClientCodec_decode(src) ==
    IF Len(src) < TcpClientMinLen THEN DecNone(src)
    ELSE IF Len(src) < 8 THEN DecPanic("copy_to_bytes", src)
    ELSE LET head == Head_tcp_try_from(Take(src, 8))
             s1 == Drop(src, 8)
         IN  IF head.function = "Err" THEN DecErr("InvalidFunctionCode", s1)
             ELSE IF head.length < 2 THEN DecPanic("length", s1)
             ELSE IF head.length - 2 > Len(s1) THEN DecPanic("copy_to_bytes", s1)
             ELSE LET len == head.length - 2
                      response == get_response(Take(s1, len), head)
                  IN  IF ~response.ok THEN DecPanic("body", Drop(s1, len))
                      ELSE DecSome(response.v, Drop(s1, len))

\* Decoder for TcpServerCodec
TcpServerCodec_decode(src) ==
    IF Len(src) < TcpServerMinLen THEN DecNone(src)
    ELSE LET head == Head_tcp_try_from(Take(src, 8))
             s1 == Drop(src, 8)
         IN  IF head.function = "Err" THEN DecErr("InvalidFunctionCode", s1)
             ELSE IF head.length < 2 THEN DecPanic("length", s1)
             ELSE IF head.length - 2 > Len(s1) THEN DecPanic("copy_to_bytes", s1)
             ELSE LET len == head.length - 2
                      request == get_request(Take(s1, len), head)
                  IN  IF ~request.ok THEN DecPanic("body", Drop(s1, len))
                      ELSE DecSome(request.v, Drop(s1, len))

----------------------------------------------------------------------------
(* Inputs *)

\* unit ids the callers use
UIDs == {1, 10, 11}

\* (address, count or value) arguments
AddrPairs == {<<29, 31>>, <<65535, 256>>, <<2, 8>>}

\* the first bytes of the short payloads
PayloadBytes == {1, 77, 255}

\* the longest short payload
MaxPayloadLen == 3

\* the payloads b, 2b, 3b, ... (each a byte) of length at most n
ShortPayloads(n) ==
    {[i \in 1..k |-> (b * i) % U8] : k \in 0..n, b \in PayloadBytes}

\* a payload of n bytes
LongPayload(n) == [i \in 1..n |-> (i * 7) % U8]

\* payloads at the limit of the one-byte count and just past it
EdgePayloads == {LongPayload(255), LongPayload(256)}

\* payloads at and past the limits of the u16 lengths
HugePayloads == {LongPayload(n) : n \in {65528, 65529, 65531, 65536}}

\* the payloads of the runs of builder calls: none, the two bytes of the
\* write-multiple-coils example, the four bytes of the discrete-inputs
\* example, and the payloads at the limit of the one-byte count
BuildPayloads == {<<>>, <<77, 1>>, <<172, 219, 251, 13>>} \cup EdgePayloads

\* the inputs_number arguments of Response::read_discrete
InputsNumbers == {28, 32}

\* the transaction ids a server passes to the builders of Response
ReplyTids == {1, 256}

\* the unit id of the run through the transaction ids
TidUnit == 1

Payloads == ShortPayloads(MaxPayloadLen) \cup EdgePayloads

Codecs == {"TcpClient", "TcpServer", "RtuClient", "RtuServer"}

\* the builder calls of one run
MaxBuilds == 1

\* the decode calls after one encode call
MaxDecodes == 1

\* ids a builder in use has already issued for unit id 1
WarmTids == {65534}

\* the builder calls of a run of builder calls only
MaxSeqBuilds == 2

\* the builder calls of a run through the transaction ids of one unit id
MaxTidBuilds == 65537

\* the threads that share one Frame
Threads == {"t1", "t2"}

\* a thread outside a builder call
IdleThread == [at |-> "idle", uid |-> 0, value |-> 0, left |-> 0]

\* the buffer holds what the encoders wrote, nothing else
NoProbe == [kind |-> "frame", codec |-> "none", byte |-> 0]

----------------------------------------------------------------------------
(* Actions: the builder calls *)

Idle == [out |-> "Idle", item |-> NoFrame, err |-> "", rest |-> <<>>]

\* A builder call of the Frame returns item for unit_id. n is the body length
\* as the unbounded sum: where a u16 addition overflows, the call panics in a
\* build with overflow checks and wraps in one without; the panic of len()
\* comes before get_tid, the panic of Head::new after it.
FrameBuilt(item, unit_id, n) ==
    /\ pc \in {"ready", "built"}
    /\ budget > 0
    /\ budget' = budget - 1
    /\ \E outcome \in (IF n >= U16 THEN {"wrap", "panic_len"}
                       ELSE IF n + 2 >= U16 THEN {"wrap", "panic_head"}
                       ELSE {"ok"}) :
          /\ frame' = IF outcome \in {"ok", "wrap"} THEN item ELSE NoFrame
          /\ builder' = IF outcome \in {"ok", "wrap"} THEN "Frame" ELSE "none"
          /\ tid_map' = IF outcome = "panic_len" THEN tid_map
                        ELSE Frame_get_tid(version, tid_map, unit_id).map
          /\ pc' = IF outcome \in {"ok", "wrap"} THEN "built" ELSE "panic"
    /\ calls' = [calls EXCEPT ![unit_id] = @ + 1]
    /\ UNCHANGED <<version, dst0, buf, enc, dec, result, decodes>>
    /\ UNCHANGED <<recvVars, threadVars>>

Call_read_coils_request(u, a, n) ==
    FrameBuilt(read_coils_request(version, tid_map, u, a, n), u, 4)

Call_read_discrete_request(u, a, n) ==
    FrameBuilt(read_discrete_request(version, tid_map, u, a, n), u, 4)

Call_read_multiple_holding_registers_request(u, a, n) ==
    FrameBuilt(read_multiple_holding_registers_request(version, tid_map, u, a, n),
               u, 4)

Call_read_input_registers_request(u, a, n) ==
    FrameBuilt(read_input_registers_request(version, tid_map, u, a, n), u, 4)

Call_write_single_coil_request(u, a, v) ==
    FrameBuilt(write_single_coil_request(version, tid_map, u, a, v), u, 4)

Call_write_single_holding_register_request(u, a, v) ==
    FrameBuilt(write_single_holding_register_request(version, tid_map, u, a, v),
               u, 4)

Call_write_multiple_coils_request(u, a, n, values) ==
    FrameBuilt(write_multiple_coils_request(version, tid_map, u, a, n, values), u,
               RequestLen("WriteMultipleCoils",
                          WriteMultipleCoilsRequest_new(a, n, values)))

Call_write_multiple_holding_registers_request(u, a, values) ==
    FrameBuilt(write_multiple_holding_registers_request(version, tid_map, u, a, values),
               u,
               RequestLen("WriteMultipleHoldingRegisters",
                          WriteMultipleHoldingRegistersRequest_new(a, values)))

Call_read_coils_response(u, values) ==
    FrameBuilt(read_coils_response(version, tid_map, u, values), u,
               ResponseLen("ReadCoils", ReadCoilsResponse_new(values)))

Call_read_discrete_response(u, values) ==
    FrameBuilt(read_discrete_response(version, tid_map, u, values), u,
               ResponseLen("ReadDiscreteInputs",
                           ReadDiscreteInputsResponse_from_values(values)))

Call_read_holding_register_response(u, values) ==
    FrameBuilt(read_holding_register_response(version, tid_map, u, values), u,
               ResponseLen("ReadMultipleHoldingRegisters",
                           ReadMultipleHoldingRegistersResponse_new(values)))

Call_read_input_register_response(u, values) ==
    FrameBuilt(read_input_register_response(version, tid_map, u, values), u,
               ResponseLen("ReadInputRegisters",
                           ReadInputRegistersResponse_new(values)))

Call_write_single_coil_response(u, a, v) ==
    FrameBuilt(write_single_coil_response(version, tid_map, u, a, v), u, 4)

Call_write_single_holding_register_response(u, a, v) ==
    FrameBuilt(write_single_holding_register_response(version, tid_map, u, a, v),
               u, 4)

Call_write_multiple_coils_response(u, a, n) ==
    FrameBuilt(write_multiple_coils_response(version, tid_map, u, a, n), u, 4)

Call_write_multiple_holding_registers_response(u, a, n) ==
    FrameBuilt(write_multiple_holding_registers_response(version, tid_map, u, a, n),
               u, 4)

Call_exception_response(u, f, e) ==
    FrameBuilt(exception_response(version, tid_map, u, f, e), u, 1)

\* A builder of Response returns item: no Frame, no tid table. The payloads
\* of these calls are short of the u16 limits, so no sum overflows.
ResponseBuilt(item) ==
    /\ pc \in {"ready", "built"}
    /\ budget > 0
    /\ budget' = budget - 1
    /\ frame' = item
    /\ builder' = "Response"
    /\ pc' = "built"
    /\ UNCHANGED <<version, tid_map, calls, dst0, buf, enc, dec, result, decodes>>
    /\ UNCHANGED <<recvVars, threadVars>>

Call_Response_read_coils(tid, u, values) ==
    ResponseBuilt(Response_read_coils(tid, u, values))

Call_Response_read_discrete(tid, u, number, values) ==
    ResponseBuilt(Response_read_discrete(tid, u, number, values))

\* the builders of Response that take a payload
BuildReply(P) ==
    \E tid \in ReplyTids, u \in UIDs, values \in P :
       \/ Call_Response_read_coils(tid, u, values)
       \/ \E number \in InputsNumbers :
             Call_Response_read_discrete(tid, u, number, values)

\* the request builders, with payloads drawn from P
BuildRequest(P) ==
    \E u \in UIDs :
       \/ \E p \in AddrPairs :
             \/ Call_read_coils_request(u, p[1], p[2])
             \/ Call_read_discrete_request(u, p[1], p[2])
             \/ Call_read_multiple_holding_registers_request(u, p[1], p[2])
             \/ Call_read_input_registers_request(u, p[1], p[2])
             \/ Call_write_single_coil_request(u, p[1], p[2])
             \/ Call_write_single_holding_register_request(u, p[1], p[2])
       \/ \E p \in AddrPairs, values \in P :
             Call_write_multiple_coils_request(u, p[1], p[2], values)
       \/ \E p \in AddrPairs, values \in P :
             Call_write_multiple_holding_registers_request(u, p[1], values)

\* the response builders, with payloads drawn from P
BuildResponse(P) ==
    \E u \in UIDs :
       \/ \E values \in P :
             \/ Call_read_coils_response(u, values)
             \/ Call_read_discrete_response(u, values)
             \/ Call_read_holding_register_response(u, values)
             \/ Call_read_input_register_response(u, values)
       \/ \E p \in AddrPairs :
             \/ Call_write_single_coil_response(u, p[1], p[2])
             \/ Call_write_single_holding_register_response(u, p[1], p[2])
             \/ Call_write_multiple_coils_response(u, p[1], p[2])
             \/ Call_write_multiple_holding_registers_response(u, p[1], p[2])
       \/ \E f \in Functions, e \in Exceptions :
             Call_exception_response(u, f, e)

----------------------------------------------------------------------------
(* Actions: the codec calls *)

\* the buffer after codec c encodes item into dst
Encoded(c, item, dst) ==
    CASE c = "TcpClient" -> TcpClientCodec_encode(item, dst)
      [] c = "TcpServer" -> TcpServerCodec_encode(item, dst)
      [] c = "RtuClient" -> RtuClientCodec_encode(item, dst)
      [] c = "RtuServer" -> RtuServerCodec_encode(item, dst)

\* what codec c returns for the buffer src
Decoded(c, src) ==
    CASE c = "TcpClient" -> TcpClientCodec_decode(src)
      [] c = "TcpServer" -> TcpServerCodec_decode(src)
      [] c = "RtuClient" -> RtuClientCodec_decode(src)
      [] c = "RtuServer" -> RtuServerCodec_decode(src)

\* the codecs that encode item: requests by the clients, responses by the
\* servers (Encoder<Request>, Encoder<Response>)
EncodersOf(item) ==
    IF item.kind = "Request" THEN {"TcpClient", "RtuClient"}
    ELSE {"TcpServer", "RtuServer"}

\* codec c encodes the frame built last into the buffer
Encode(c) ==
    /\ pc = "built"
    /\ c \in EncodersOf(frame)
    /\ dst0' = buf
    /\ buf' = Encoded(c, frame, buf)
    /\ enc' = c
    /\ decodes' = 0
    /\ dec' = "none"
    /\ result' = Idle
    /\ pc' = "encoded"
    /\ UNCHANGED <<version, tid_map, calls, budget, frame, builder>>
    /\ UNCHANGED <<recvVars, threadVars>>

\* codec c decodes from the buffer; one connection decodes with one codec
Decode(c) ==
    /\ pc \in {"encoded", "decoded"}
    /\ decodes < MaxDecodes
    /\ dec \in {"none", c}
    /\ LET r == Decoded(c, buf)
       IN  /\ result' = r
           /\ buf' = r.rest
           /\ pc' = IF r.out = "Panic" THEN "panic" ELSE "decoded"
    /\ dec' = c
    /\ decodes' = decodes + 1
    /\ src0' = buf
    /\ UNCHANGED <<version, tid_map, calls, budget, frame, builder, dst0, enc>>
    /\ UNCHANGED <<wire, probe, threadVars, lineVars>>

----------------------------------------------------------------------------
(* Specifications *)

\* a Frame::tcp() or Frame::rtu() builder with the tid table map, a caller
\* with n builder calls to make, and an empty buffer
Start(ver, map, n) ==
    /\ version = ver
    /\ tid_map = map
    /\ calls = [u \in UIDs |-> 0]
    /\ budget = n
    /\ frame = NoFrame
    /\ builder = "none"
    /\ dst0 = <<>>
    /\ buf = <<>>
    /\ enc = "none"
    /\ dec = "none"
    /\ result = Idle
    /\ decodes = 0
    /\ pc = "ready"
    /\ src0 = <<>>
    /\ wire = <<>>
    /\ probe = NoProbe
    /\ lock = "none"
    /\ threads = [t \in Threads |-> IdleThread]
    /\ issued = [u \in UIDs |-> <<>>]
    /\ sent = <<>>
    /\ outs = <<>>

\* the empty HashMap
EmptyMap == <<>>

\* a builder just constructed, or a TCP builder that has issued t ids for
\* unit id 1
Init ==
    \/ \E ver \in {"Tcp", "Rtu"} : Start(ver, EmptyMap, MaxBuilds)
    \/ \E t \in WarmTids : Start("Tcp", [u \in {1} |-> t], MaxBuilds)

\* a caller builds frames, encodes the last one and decodes the buffer
Next ==
    \/ BuildRequest(Payloads)
    \/ BuildResponse(Payloads)
    \/ \E c \in Codecs : Encode(c)
    \/ \E c \in Codecs : Decode(c)

Spec == Init /\ [][Next]_vars

----------------------------------------------------------------------------
(* Actions: threads that share one Frame. A builder call is the steps of    *)
(* Frame::get_tid: lock, map.get, map.insert, and the return, which drops  *)
(* the guard.                                                              *)

\* the unit ids the threads build for
ThreadUIDs == {1, 10}

\* the builder calls of one thread
MaxThreadCalls == 2

\* thread t enters a builder call for unit_id; an RTU Frame returns 0 at once
T_Call(t, unit_id) ==
    /\ threads[t].at = "idle"
    /\ threads[t].left > 0
    /\ IF version = "Rtu"
       THEN /\ threads' = [threads EXCEPT ![t].left = @ - 1]
            /\ issued' = [issued EXCEPT ![unit_id] =
                              Append(@, [thread |-> t, tid |-> 0])]
       ELSE /\ threads' = [threads EXCEPT ![t].at = "lock", ![t].uid = unit_id]
            /\ UNCHANGED issued
    /\ UNCHANGED <<version, tid_map, calls, budget, frame, builder, dst0, buf,
                   enc, dec, result, decodes, pc, recvVars, lock>>

\* self.tid_map.lock().unwrap()
T_Lock(t) ==
    /\ threads[t].at = "lock"
    /\ MutexFree(lock)
    /\ lock' = t
    /\ threads' = [threads EXCEPT ![t].at = "get"]
    /\ UNCHANGED <<version, tid_map, calls, budget, frame, builder, dst0, buf,
                   enc, dec, result, decodes, pc, recvVars, issued>>

\* let value = match map.get(&unit_id) { ... }
T_Get(t) ==
    /\ threads[t].at = "get"
    /\ threads' = [threads EXCEPT
                      ![t].at = "insert",
                      ![t].value = get_tid_value(tid_map, threads[t].uid)]
    /\ UNCHANGED <<version, tid_map, calls, budget, frame, builder, dst0, buf,
                   enc, dec, result, decodes, pc, recvVars, lock, issued>>

\* map.insert(unit_id, value)
T_Insert(t) ==
    /\ threads[t].at = "insert"
    /\ tid_map' = HashMap_insert(tid_map, threads[t].uid, threads[t].value)
    /\ threads' = [threads EXCEPT ![t].at = "return"]
    /\ UNCHANGED <<version, calls, budget, frame, builder, dst0, buf,
                   enc, dec, result, decodes, pc, recvVars, lock, issued>>

\* get_tid returns value: the guard is dropped and the builder call returns
\* a frame that carries the id
T_Return(t) ==
    /\ threads[t].at = "return"
    /\ lock' = "none"
    /\ threads' = [threads EXCEPT ![t].at = "idle", ![t].left = @ - 1]
    /\ issued' = [issued EXCEPT ![threads[t].uid] =
                      Append(@, [thread |-> t, tid |-> threads[t].value])]
    /\ calls' = [calls EXCEPT ![threads[t].uid] = @ + 1]
    /\ UNCHANGED <<version, tid_map, budget, frame, builder, dst0, buf,
                   enc, dec, result, decodes, pc, recvVars>>

\* the steps of thread t inside get_tid
ThreadStep(t) == T_Lock(t) \/ T_Get(t) \/ T_Insert(t) \/ T_Return(t)

\* a new TCP Frame shared by threads that each make MaxThreadCalls calls
InitThreads ==
    /\ version = "Tcp"
    /\ tid_map = EmptyMap
    /\ calls = [u \in UIDs |-> 0]
    /\ budget = 0
    /\ frame = NoFrame
    /\ builder = "none"
    /\ dst0 = <<>>
    /\ buf = <<>>
    /\ enc = "none"
    /\ dec = "none"
    /\ result = Idle
    /\ decodes = 0
    /\ pc = "ready"
    /\ src0 = <<>>
    /\ wire = <<>>
    /\ probe = NoProbe
    /\ lock = "none"
    /\ threads = [t \in Threads |-> [IdleThread EXCEPT !.left = MaxThreadCalls]]
    /\ issued = [u \in UIDs |-> <<>>]
    /\ sent = <<>>
    /\ outs = <<>>

NextThreads ==
    \E t \in Threads :
       \/ \E u \in ThreadUIDs : T_Call(t, u)
       \/ T_Lock(t)
       \/ T_Get(t)
       \/ T_Insert(t)
       \/ T_Return(t)

\* a thread inside get_tid goes on running
SpecThreads ==
    InitThreads /\ [][NextThreads]_vars /\ \A t \in Threads : WF_vars(ThreadStep(t))

----------------------------------------------------------------------------
(* Actions: a connection that delivers the bytes of a frame one at a time  *)

\* the payloads of the frames sent over the connection
FeedPayloads == {<<>>, <<77, 1>>}

\* the codec that decodes what codec c encodes
PeerOf(c) ==
    CASE c = "TcpClient" -> "TcpServer"
      [] c = "TcpServer" -> "TcpClient"
      [] c = "RtuClient" -> "RtuServer"
      [] c = "RtuServer" -> "RtuClient"

\* the bytes arrive one at a time
OneByOne == [kind |-> "feed", codec |-> "none", byte |-> 0]

\* the sender encodes the frame built last with codec c, the one of the
\* frame's protocol, into an empty buffer and sends the bytes
Send(c) ==
    /\ pc = "built"
    /\ c \in EncodersOf(frame)
    /\ c \in (IF version = "Tcp" THEN {"TcpClient", "TcpServer"}
                                ELSE {"RtuClient", "RtuServer"})
    /\ wire' = Encoded(c, frame, <<>>)
    /\ enc' = c
    /\ probe' = OneByOne
    /\ decodes' = 0
    /\ dec' = "none"
    /\ result' = Idle
    /\ pc' = "sent"
    /\ UNCHANGED <<version, tid_map, calls, budget, frame, builder, dst0, buf,
                   src0, threadVars, lineVars>>

\* the next byte arrives in the receive buffer and the receiver calls decode
\* of codec c, the peer of the sender's
Receive(c) ==
    /\ pc \in {"sent", "decoded"}
    /\ probe = OneByOne
    /\ wire # <<>>
    /\ c = PeerOf(enc)
    /\ LET src == Append(buf, Head(wire))
           r == Decoded(c, src)
       IN  /\ src0' = src
           /\ result' = r
           /\ buf' = r.rest
           /\ pc' = IF r.out = "Panic" THEN "panic" ELSE "decoded"
    /\ wire' = Tail(wire)
    /\ dec' = c
    /\ decodes' = decodes + 1
    /\ UNCHANGED <<version, tid_map, calls, budget, frame, builder, dst0, enc,
                   probe, threadVars, lineVars>>

NextFeed ==
    \/ BuildRequest(FeedPayloads)
    \/ BuildResponse(FeedPayloads)
    \/ \E c \in Codecs : Send(c)
    \/ \E c \in Codecs : Receive(c)

SpecFeed == Init /\ [][NextFeed]_vars

----------------------------------------------------------------------------
(* Actions: a line that damages one byte of an encoded frame               *)

\* the values a damaged byte b may take: one bit changed, the top bit
\* changed, every bit changed
DamagedBytes(b) == {AsU8(b + 1), AsU8(b + 128), 255 - b}

\* byte i of the encoded frame arrives as v
Damaged(i) == [kind |-> "corrupt", codec |-> "none", byte |-> i]

Corrupt(i, v) ==
    /\ pc \in {"encoded", "delivered"}
    /\ probe = NoProbe
    /\ dst0 = <<>>
    /\ i \in 1..Len(buf)
    /\ v \in DamagedBytes(buf[i])
    /\ buf' = [buf EXCEPT ![i] = v]
    /\ probe' = Damaged(i)
    /\ UNCHANGED <<version, tid_map, calls, budget, frame, builder, dst0, enc,
                   dec, result, decodes, pc, src0, wire, threadVars, lineVars>>

\* the longest encoded frame of the damaged line: an RTU frame with a
\* payload of FeedPayloads
MaxFrameLen == 11

\* the codecs at the two ends of a serial line
RtuCodecs == {"RtuClient", "RtuServer"}

\* a new RTU builder
InitCorrupt == Start("Rtu", EmptyMap, MaxBuilds)

NextCorrupt ==
    \/ BuildRequest(FeedPayloads)
    \/ BuildResponse(FeedPayloads)
    \/ \E c \in RtuCodecs : Encode(c)
    \/ \E i \in 1..MaxFrameLen, v \in 0..255 : Corrupt(i, v)
    \/ \E c \in RtuCodecs : Decode(c)

SpecCorrupt == InitCorrupt /\ [][NextCorrupt]_vars

----------------------------------------------------------------------------
(* Actions: a peer that is not this crate writes the bytes a decoder reads  *)

\* a frame as the decoders of codec c read it: the TCP header before the unit
\* id, function byte and body, or the trailer the RTU check accepts after them
Framed(c, pdu) ==
    IF c \in {"TcpClient", "TcpServer"}
    THEN PutU16(1) \o PutU16(0) \o PutU16(Len(pdu)) \o pdu
    ELSE pdu \o PutU16(crc_compute(pdu))

\* a body of the layout codec c reads after function byte b: a request for
\* the servers, a response or an exception code for the clients
ProbeBody(c, b) ==
    LET f == Function_try_from(b % 128)
    IN  IF c \in {"TcpServer", "RtuServer"}
        THEN IF f \in {"WriteMultipleCoils", "WriteMultipleHoldingRegisters"}
             THEN <<0, 29, 0, 9, 2, 77, 1>>
             ELSE <<0, 29, 0, 31>>
        ELSE IF b >= 128 THEN <<2>>
        ELSE IF f \in ReadFunctions \/ f = "Err" THEN <<2, 77, 1>>
        ELSE <<0, 29, 0, 31>>

\* well-formed frames for codec c with each function byte
FunctionProbes ==
    {[kind |-> "function", codec |-> c, byte |-> b] : c \in Codecs, b \in 0..255}

\* exception responses for the client codecs with each exception-code byte
ExceptionProbes ==
    {[kind |-> "exception", codec |-> c, byte |-> x] :
        c \in {"TcpClient", "RtuClient"}, x \in 0..255}

\* other buffers: the first 4 bytes of a TCP frame, a TCP length field of 0
\* and of 1, a length field larger than the bytes buffered, a body shorter
\* than the function's layout, an empty buffer and a single byte; a length
\* field larger than the function's layout (a read request with 6 body
\* bytes), a count byte that is not the number of values that follow (5 for
\* 2 values in a write request, 1 for 2 values in a read response)
RawBuffers ==
    << <<0, 1, 0, 0>>,
       <<0, 1, 0, 0, 0, 0, 1, 1>>,
       <<0, 1, 0, 0, 0, 1, 1, 1>>,
       <<0, 1, 0, 0, 0, 6, 1, 1, 0, 2>>,
       <<0, 1, 0, 0, 0, 4, 1, 15, 0, 2>>,
       <<>>,
       <<1>>,
       <<0, 1, 0, 0, 0, 8, 1, 1, 0, 2, 0, 8, 9, 9>>,
       <<0, 1, 0, 0, 0, 9, 1, 15, 0, 29, 0, 9, 5, 77, 1>>,
       <<0, 1, 0, 0, 0, 5, 1, 1, 1, 77, 1>> >>

RawProbes ==
    {[kind |-> "raw", codec |-> "none", byte |-> i] : i \in 1..Len(RawBuffers)}

\* the bytes of a probe
ProbeBytes(p) ==
    CASE p.kind = "function" ->
            Framed(p.codec, <<1, p.byte>> \o ProbeBody(p.codec, p.byte))
      [] p.kind = "exception" -> Framed(p.codec, <<1, 129, p.byte>>)
      [] p.kind = "raw" -> RawBuffers[p.byte]

\* the transport puts the bytes of probe p in the empty receive buffer
Arrive(p) ==
    /\ pc = "ready"
    /\ probe = NoProbe
    /\ buf = <<>>
    /\ buf' = ProbeBytes(p)
    /\ probe' = p
    /\ pc' = "encoded"
    /\ UNCHANGED <<version, tid_map, calls, budget, frame, builder, dst0, enc,
                   dec, result, decodes, src0, wire, threadVars, lineVars>>

NextRaw ==
    \/ \E p \in FunctionProbes : Arrive(p)
    \/ \E p \in ExceptionProbes : Arrive(p)
    \/ \E p \in RawProbes : Arrive(p)
    \/ \E c \in Codecs : Decode(c)

SpecRaw == Init /\ [][NextRaw]_vars

----------------------------------------------------------------------------
(* Specification: a caller builds one frame and encodes it with the codec  *)
(* of the builder's protocol                                               *)

\* a payload one byte longer than a u16 can count
PastU16Payloads == {LongPayload(U16)}

\* the protocol of a codec
ProtocolOf(c) == IF c \in {"TcpClient", "TcpServer"} THEN "Tcp" ELSE "Rtu"

NextLayout ==
    \/ BuildRequest(FeedPayloads)
    \/ BuildResponse(FeedPayloads)
    \/ version = "Tcp" /\ BuildRequest(PastU16Payloads)
    \/ \E c \in Codecs : version = ProtocolOf(c) /\ Encode(c)

SpecLayout == Init /\ [][NextLayout]_vars

----------------------------------------------------------------------------
(* Actions: a line that carries several frames, one after the other        *)

\* the frames a line carries
PairFrames == 2

\* the unit id of the frames of a line
PairUnit == 1

\* an earlier frame is still in the buffer the next one is encoded into
Kept == [kind |-> "kept", codec |-> "none", byte |-> 0]

\* the frames on the line so far are of the kind of the frame built last
SameKind == \A i \in 1..Len(sent) : sent[i].kind = frame.kind

\* the caller leaves the encoded frame in the buffer and goes on to build
\* the next one
Keep ==
    /\ pc = "encoded"
    /\ budget > 0
    /\ SameKind
    /\ sent' = Append(sent, frame)
    /\ probe' = Kept
    /\ pc' = "ready"
    /\ UNCHANGED <<version, tid_map, calls, budget, frame, builder, dst0, buf,
                   enc, dec, result, decodes, src0, wire, outs, threadVars>>

\* the transport takes the bytes out of the buffer and puts them on the line
Flush ==
    /\ pc = "encoded"
    /\ SameKind
    /\ wire' = wire \o buf
    /\ buf' = <<>>
    /\ sent' = Append(sent, frame)
    /\ pc' = "ready"
    /\ UNCHANGED <<version, tid_map, calls, budget, frame, builder, dst0, enc,
                   dec, result, decodes, src0, probe, outs, threadVars>>

\* all the bytes of the line arrive in the receive buffer of the peer
Deliver ==
    /\ pc = "ready"
    /\ budget = 0
    /\ wire # <<>>
    /\ buf = <<>>
    /\ buf' = wire
    /\ wire' = <<>>
    /\ pc' = "delivered"
    /\ UNCHANGED <<version, tid_map, calls, budget, frame, builder, dst0, enc,
                   dec, result, decodes, src0, probe, lineVars, threadVars>>

\* the receiver calls decode of codec c, the peer of the sender's, once more
\* than there are frames
DecodeNext(c) ==
    /\ pc \in {"delivered", "decoded"}
    /\ Len(outs) <= Len(sent)
    /\ c = PeerOf(enc)
    /\ LET r == Decoded(c, buf)
       IN  /\ result' = r
           /\ buf' = r.rest
           /\ outs' = Append(outs, r)
           /\ pc' = IF r.out = "Panic" THEN "panic" ELSE "decoded"
    /\ dec' = c
    /\ decodes' = decodes + 1
    /\ src0' = buf
    /\ UNCHANGED <<version, tid_map, calls, budget, frame, builder, dst0, enc,
                   wire, probe, sent, threadVars>>

\* a new builder and frames for one line
InitPair == \E ver \in {"Tcp", "Rtu"} : Start(ver, EmptyMap, PairFrames)

NextPair ==
    \/ Call_read_coils_request(PairUnit, 29, 31)
    \/ Call_write_single_coil_request(PairUnit, 2, 8)
    \/ Call_write_multiple_coils_request(PairUnit, 29, 9, <<77, 1>>)
    \/ Call_read_coils_response(PairUnit, <<77, 1>>)
    \/ Call_write_single_coil_response(PairUnit, 2, 8)
    \/ Call_exception_response(PairUnit, "ReadCoils", "IllegalDataAddress")
    \/ \E c \in Codecs : version = ProtocolOf(c) /\ Encode(c)
    \/ Keep
    \/ Flush
    \/ Deliver
    \/ \E i \in 1..MaxFrameLen, v \in 0..255 :
          version = "Rtu" /\ pc = "delivered" /\ Corrupt(i, v)
    \/ \E c \in Codecs : DecodeNext(c)

SpecPair == InitPair /\ [][NextPair]_vars

\* a builder just constructed and a caller that only builds
InitBuild == \E ver \in {"Tcp", "Rtu"} : Start(ver, EmptyMap, MaxSeqBuilds)

\* the caller builds frames one after another; the payloads at the u16
\* limits go to the first call
NextBuild ==
    \/ BuildRequest(BuildPayloads)
    \/ BuildResponse(BuildPayloads)
    \/ BuildReply(BuildPayloads)
    \/ pc = "ready" /\ BuildRequest(HugePayloads)
    \/ pc = "ready" /\ BuildResponse(HugePayloads)

SpecBuild == InitBuild /\ [][NextBuild]_vars

\* a new TCP builder and a caller that builds requests for one unit id
InitTid == Start("Tcp", EmptyMap, MaxTidBuilds)

NextTid ==
    \E p \in {<<29, 31>>} :
       \/ Call_read_coils_request(TidUnit, p[1], p[2])
       \/ Call_write_single_coil_request(TidUnit, p[1], p[2])

SpecTid == InitTid /\ [][NextTid]_vars

----------------------------------------------------------------------------
(* Properties of the codecs *)

\* the codecs of the two ends of a connection that carries ver
ClientOf(ver) == IF ver = "Tcp" THEN "TcpClient" ELSE "RtuClient"

ServerOf(ver) == IF ver = "Tcp" THEN "TcpServer" ELSE "RtuServer"

\* the payload of a frame: its values, if its body has any
PayloadOf(item) ==
    IF "values" \in DOMAIN item.body THEN item.body.values ELSE <<>>

\* the longest payload the one-byte count can state
MaxCounted == U8 - 1

\* codec e has encoded the frame built last into an empty buffer and codec d
\* has been called once on that buffer
Piped(e, d) == enc = e /\ dec = d /\ decodes = 1 /\ dst0 = <<>>

\* the decode call returned the frame built last and left nothing
RoundTrip == result = DecSome(frame, <<>>) /\ buf = <<>>

\* C1: a request built by a TCP Frame (payload of at most 255 bytes), encoded
\* by TcpClientCodec into an empty buffer and decoded by TcpServerCodec, comes
\* back as Some(request) equal to the original in head and body, and the
\* buffer is left empty.
TcpRequestRoundTrip ==
    (/\ frame.kind = "Request"
     /\ version = "Tcp"
     /\ Piped("TcpClient", "TcpServer")
     /\ Len(PayloadOf(frame)) <= MaxCounted)
    => RoundTrip

\* a write-multiple request with a 255-byte payload has made the TCP round trip
TcpRequestRoundTripWitness ==
    /\ frame.kind = "Request"
    /\ version = "Tcp"
    /\ Piped("TcpClient", "TcpServer")
    /\ frame.variant = "WriteMultipleHoldingRegisters"
    /\ Len(PayloadOf(frame)) = MaxCounted
    /\ result.out = "Some"

\* C2: a request built by an RTU Frame (payload of at most 255 bytes), encoded
\* by RtuClientCodec into an empty buffer and decoded by RtuServerCodec, comes
\* back as Some(request) equal to the original, with head.length two more
\* than the body bytes and transaction id 0, and the buffer is left empty; the
\* body length the decoder infers from the function code is the number of
\* body bytes the encoder emitted.
RtuRequestRoundTrip ==
    (/\ frame.kind = "Request"
     /\ version = "Rtu"
     /\ Piped("RtuClient", "RtuServer")
     /\ Len(PayloadOf(frame)) <= MaxCounted)
    => /\ RoundTrip
       /\ result.item.head.length = 2 + Len(BodyBytes(frame))
       /\ result.item.head.tid = 0
       /\ RtuServerBodyLen(frame.head,
                           Drop(RtuClientCodec_encode(frame, <<>>), 2))
             = Len(BodyBytes(frame))

\* a write-multiple request with a 255-byte payload has made the RTU round trip
RtuRequestRoundTripWitness ==
    /\ frame.kind = "Request"
    /\ version = "Rtu"
    /\ Piped("RtuClient", "RtuServer")
    /\ frame.variant = "WriteMultipleCoils"
    /\ Len(PayloadOf(frame)) = MaxCounted
    /\ result.out = "Some"
    /\ result.item.head.length = 262

\* C3: a response built by one of the 8 non-exception response builders
\* (payload of at most 255 bytes), encoded by the server codec of the Frame's
\* protocol into an empty buffer and decoded by the client codec of the same
\* protocol, comes back as Some(response) equal to the original, and the
\* buffer is left empty.
ResponseRoundTrip ==
    (/\ frame.kind = "Response"
     /\ frame.variant # "Exception"
     /\ Piped(ServerOf(version), ClientOf(version))
     /\ Len(PayloadOf(frame)) <= MaxCounted)
    => RoundTrip

\* a read response with a 255-byte payload has made the RTU round trip
ResponseRoundTripWitness ==
    /\ frame.kind = "Response"
    /\ frame.variant = "ReadMultipleHoldingRegisters"
    /\ version = "Rtu"
    /\ Piped("RtuServer", "RtuClient")
    /\ Len(PayloadOf(frame)) = MaxCounted
    /\ result.out = "Some"

\* C4: the encoding of exception_response(uid, f, e), decoded by the client
\* codec, comes back as a Response::Exception whose head has is_exception
\* set and function f and whose body carries e, for all 8 functions and all 5
\* exceptions.
ExceptionRoundTrip ==
    (/\ frame.kind = "Response"
     /\ frame.variant = "Exception"
     /\ Piped(ServerOf(version), ClientOf(version)))
    => /\ result.out = "Some"
       /\ result.item.variant = "Exception"
       /\ result.item.head.is_exception
       /\ result.item.head.function = frame.head.function
       /\ result.item.body.exception = frame.body.exception
       /\ Exception_from_code(Exception_to_code(frame.body.exception))
             = frame.body.exception

\* the bytes of exception_response(0x0A, ReadCoils, IllegalDataAddress) of a
\* new builder, on TCP and on RTU
ExceptionVector(ver) ==
    IF ver = "Tcp" THEN <<0, 1, 0, 0, 0, 3, 10, 129, 2>>
    ELSE <<10, 129, 2, 176, 83>>

----------------------------------------------------------------------------
(* Properties of the builders *)

\* C6: every Request or Response returned by one of the 17 builders of a
\* Frame, for payloads of any length, has head.length equal to 2 plus the
\* number of body bytes the encoder emits for its body.
BuiltLength ==
    (pc = "built" /\ builder = "Frame")
    => frame.head.length = 2 + Len(BodyBytes(frame))

\* C7: every WriteMultipleCoils or WriteMultipleHoldingRegisters request
\* built from a payload of any length has a byte count equal to the number
\* of payload bytes and a body of 5 bytes more than the payload; the payload
\* 4D 01 gives byte count 2 and length 7.
WriteMultipleByteCount ==
    (/\ pc = "built"
     /\ frame.kind = "Request"
     /\ frame.variant \in {"WriteMultipleCoils", "WriteMultipleHoldingRegisters"})
    => /\ frame.body.bytes_number = Len(frame.body.values)
       /\ Len(BodyBytes(frame)) = 5 + Len(frame.body.values)
       /\ frame.body.values = <<77, 1>>
          => /\ frame.body.bytes_number = 2
             /\ RequestLen(frame.variant, frame.body) = 7

\* C8: every ReadCoils, ReadDiscreteInputs, ReadMultipleHoldingRegisters and
\* ReadInputRegisters response body the builders construct has a byte count
\* equal to the number of its value bytes and an encoded length of 1 plus
\* the byte count.
ReadResponseByteCount ==
    (/\ pc = "built"
     /\ frame.kind = "Response"
     /\ frame.variant \in ReadFunctions)
    => /\ frame.body.bytes_number = Len(frame.body.values)
       /\ Len(BodyBytes(frame)) = 1 + frame.body.bytes_number

\* C9: on a new TCP builder and one unit id the k-th build carries
\* transaction id k for k = 1..0xFFFF, the build after id 0xFFFF carries id 1
\* and the ids go on from there, and no build carries id 0; so the ids of
\* any 65535 builds in a row differ from one another.
TidSequence ==
    pc = "built"
    => LET k == calls[TidUnit]
       IN  /\ frame.head.tid = ((k - 1) % 65535) + 1
           /\ (k <= 65535 => frame.head.tid = k)
           /\ (k = 65536 => frame.head.tid = 1)
           /\ frame.head.tid # 0
           /\ tid_map[TidUnit] = frame.head.tid

\* the build after the one that carried 0xFFFF has carried id 1
TidSequenceWitness ==
    /\ pc = "built"
    /\ calls[TidUnit] = 65536
    /\ frame.head.tid = 1

\* C10: every frame built by an RTU Frame has transaction id 0 and protocol
\* id 0, and after any sequence of builder calls the tid table of an RTU
\* Frame is empty, as it was.
RtuTidUnused ==
    version = "Rtu"
    => /\ tid_map = EmptyMap
       /\ (pc = "built" /\ builder = "Frame")
          => frame.head.tid = 0 /\ frame.head.pid = 0

\* an RTU Frame has built frames for two unit ids, one after the other
RtuTidUnusedWitness ==
    /\ version = "Rtu"
    /\ pc = "built"
    /\ builder = "Frame"
    /\ calls[1] >= 1
    /\ calls[10] >= 1

----------------------------------------------------------------------------
(* Properties of a shared Frame *)

\* the ids issued for unit id u so far
IssuedIds(u) == {issued[u][i].tid : i \in 1..Len(issued[u])}

\* the ids issued for each unit id differ from one another and are 1..n after
\* n calls, whatever was issued for other unit ids; with no call for the unit
\* id under way the table holds n
IdsSafe ==
    \A u \in UIDs :
       LET n == Len(issued[u])
       IN  /\ \A i, j \in 1..n : i # j => issued[u][i].tid # issued[u][j].tid
           /\ IssuedIds(u) = 1..n
           /\ (n > 0 /\ \A t \in Threads :
                            threads[t].at = "idle" \/ threads[t].uid # u)
              => tid_map[u] = n

\* C11: threads that call builders on one shared TCP Frame, in any
\* interleaving, get pairwise distinct transaction ids for one unit id (after
\* n calls the ids issued are 1..n and the table holds n), calls for
\* different unit ids do not affect each other, and every call returns.
ConcurrentIds ==
    /\ []IdsSafe
    /\ \A t \in Threads : (threads[t].at # "idle") ~> (threads[t].at = "idle")

\* both threads have been issued ids for unit id 1 and one for unit id 10
ConcurrentIdsWitness ==
    /\ Len(issued[1]) >= 3
    /\ \E i, j \in 1..Len(issued[1]) : issued[1][i].thread # issued[1][j].thread
    /\ Len(issued[10]) >= 1
    /\ \A t \in Threads : threads[t].at = "idle"

----------------------------------------------------------------------------
(* Properties of the decoders on partial and damaged input *)

\* codec d has been called after each byte that arrived so far of the frame
\* built last
Fed(d) == probe = OneByOne /\ dec = d /\ decodes >= 1

\* the call after a byte that is not the last returned Ok(None); the call
\* after the last byte returned the frame and left nothing
OneFrameAtLastByte ==
    IF wire # <<>> THEN result.out = "None"
    ELSE result = DecSome(frame, <<>>) /\ buf = <<>>

\* C12: when the bytes of one TCP frame arrive one at a time and decode
\* (TcpServerCodec for requests, TcpClientCodec for responses) is called
\* after each byte, every call before the last byte returns Ok(None) and the
\* call after the last byte returns that frame.
TcpPartialFrames ==
    (Fed("TcpServer") \/ Fed("TcpClient")) => OneFrameAtLastByte

\* C13: when the bytes of one RTU frame, its two CRC bytes included, arrive
\* one at a time and decode (RtuServerCodec for requests, RtuClientCodec for
\* responses) is called after each byte, every call before the last byte
\* returns Ok(None) and the call after the last CRC byte returns that frame.
RtuPartialFrames ==
    (Fed("RtuServer") \/ Fed("RtuClient")) => OneFrameAtLastByte

\* an RTU frame encoded by its codec arrived with one byte changed and the
\* peer codec decoded it
DamagedRtu ==
    /\ probe.kind = "corrupt"
    /\ version = "Rtu"
    /\ enc \in RtuCodecs
    /\ dec = PeerOf(enc)
    /\ decodes = 1

\* C14: for every valid RTU frame and every position in it (unit id, function
\* byte, a body byte, either CRC byte), replacing that one byte by a
\* different value makes the RTU decoder fail with the invalid-checksum
\* error: it returns no frame and no other outcome.
ChecksumRejection ==
    DamagedRtu => result.out = "Err" /\ result.err = "InvalidChecksum"

\* the bytes the last decode call took out of the buffer
Consumed == Take(src0, Len(src0) - Len(buf))

\* C15: whenever RtuClientCodec or RtuServerCodec returns a frame, the two
\* trailing bytes it consumed, read as the decoder reads them, are the CRC16
\* of exactly the head and body bytes it consumed for that frame: a frame
\* whose CRC does not match is never returned.
NoGarbageFrames ==
    (dec \in RtuCodecs /\ pc = "decoded" /\ result.out = "Some") =>
        LET n == Len(Consumed)
        IN  /\ n >= 4
            /\ buf = Drop(src0, n)
            /\ n = result.item.head.length + 2
            /\ Consumed[n - 1] * 256 + Consumed[n]
                 = crc_compute(Take(Consumed, n - 2))

\* an RTU decoder returned a write request with a payload, an RTU decoder
\* refused a damaged frame
NoGarbageFramesWitness ==
    /\ dec = "RtuServer"
    /\ pc = "decoded"
    /\ result.out = "Some"
    /\ result.item = frame
    /\ frame.variant = "WriteMultipleCoils"
    /\ frame.body.values = <<77, 1>>
    /\ Len(Consumed) = 11

\* C16: for every byte sequence in the buffer (any length, any content,
\* a TCP length field of 0 or 1, a length field larger than the bytes
\* buffered, a body shorter than the function's layout), each of the four
\* decoders ends with a frame, need-more-input or a returned error: decode
\* never panics.
DecodeFailuresAreValues ==
    decodes >= 1 => pc # "panic" /\ result.out \in {"Some", "None", "Err"}

\* codec probe.codec decoded the probe made for it
Probed(kind) == probe.kind = kind /\ dec = probe.codec /\ decodes = 1

\* C17: for every function byte b in 0..255, each of the four decoders takes
\* the frame as an exception iff the top bit of b is set, takes b with the
\* top bit cleared as the base code, returns an error and no frame when the
\* base code is not one of 0x01..0x06, 0x0F, 0x10, and returns the Function
\* of a recognised base code.
FunctionByteDecoding ==
    Probed("function") =>
        LET b == probe.byte
            base == IF b >= 128 THEN b - 128 ELSE b
        IN  IF base \in (1..6) \cup {15, 16}
            THEN /\ result.out = "Some"
                 /\ Function_to_code(result.item.head.function) = base
                 /\ result.item.head.is_exception = (b >= 128)
            ELSE /\ result.out = "Err"
                 /\ result.err = "InvalidFunctionCode"
                 /\ result.item = NoFrame

\* the RTU server decoder returned a write request whose function byte 0x8F
\* has the top bit set
FunctionByteDecodingWitness ==
    /\ Probed("function")
    /\ dec = "RtuServer"
    /\ probe.byte = 143
    /\ result.out = "Some"
    /\ result.item.head.is_exception
    /\ result.item.head.function = "WriteMultipleCoils"
    /\ buf = <<>>

\* C18: when a client decoder (TCP or RTU) receives an otherwise well-formed
\* exception response whose exception-code byte is not in 0x01..0x05, decode
\* returns an error value to the caller and no frame.
UnrecognizedExceptionCode ==
    (Probed("exception") /\ probe.byte \notin 1..5) =>
        result.out = "Err" /\ result.item = NoFrame

----------------------------------------------------------------------------
(* Properties of the bytes on the wire *)

\* a two-byte field, high byte first
BigEndian(v) == <<v \div 256, v % 256>>

\* the fields of a body in the order the struct declares them, two-byte
\* fields high byte first
DeclaredBody(item) ==
    LET b == item.body
        v == item.variant
    IN  IF v = "Exception" THEN <<Exception_to_code(b.exception)>>
        ELSE IF item.kind = "Response" /\ v \in ReadFunctions
        THEN <<b.bytes_number>> \o b.values
        ELSE LET first == CASE v = "WriteSingleCoil" -> b.coil_address
                            [] v = "WriteSingleHoldingRegister" -> b.register_address
                            [] OTHER -> b.first_address
                 second == CASE v \in {"ReadCoils", "WriteMultipleCoils"} ->
                                  b.coils_number
                             [] v = "ReadDiscreteInputs" -> b.discrete_inputs_number
                             [] v \in {"WriteSingleCoil",
                                       "WriteSingleHoldingRegister"} -> b.value
                             [] OTHER -> b.registers_number
             IN  BigEndian(first) \o BigEndian(second)
                 \o (IF item.kind = "Request" /\ "values" \in DOMAIN b
                     THEN <<b.bytes_number>> \o b.values
                     ELSE <<>>)

\* the function byte of a head: the code, plus 0x80 if exception
FunctionByte(head) ==
    Function_to_code(head.function) + (IF head.is_exception THEN 128 ELSE 0)

\* the codec of protocol ver has encoded the frame built last into an empty
\* buffer
OnWire(ver) ==
    /\ version = ver
    /\ pc = "encoded"
    /\ ProtocolOf(enc) = ver
    /\ dst0 = <<>>

\* C19: for every frame built by a TCP Frame the TCP encoder emits exactly
\* 6 + head.length bytes: the transaction id (2 bytes big-endian), the
\* protocol id (2 bytes, 0), the length (2 bytes big-endian), the unit id,
\* the function byte (plus 0x80 if exception), then the body fields in
\* declared order big-endian, and no trailer; the first
\* read_coils_request(0x01, 0x02, 0x08) of a fresh builder encodes to
\* 00 01 00 00 00 06 01 01 00 02 00 08.
TcpWireLayout ==
    OnWire("Tcp") =>
        /\ Len(buf) = 6 + frame.head.length
        /\ buf = BigEndian(frame.head.tid) \o <<0, 0>>
                 \o BigEndian(frame.head.length)
                 \o <<frame.head.uid, FunctionByte(frame.head)>>
                 \o DeclaredBody(frame)
        /\ (frame = read_coils_request("Tcp", EmptyMap, 1, 2, 8))
              => buf = <<0, 1, 0, 0, 0, 6, 1, 1, 0, 2, 0, 8>>

----------------------------------------------------------------------------
(* Properties of the function codes *)

\* the codes of the eight functions
FunctionCodes == (1..6) \cup {15, 16}

\* C21: Function::to_code is injective onto {0x01, 0x02, 0x03, 0x04, 0x05,
\* 0x06, 0x0F, 0x10}, Function::try_from(f.to_code()) is Ok(f) for each of
\* the 8 functions, and try_from(b) is an error for every other byte b; a
\* TCP decoder that read function byte b below 0x80 returns try_from(b).
FunctionCodeBijection ==
    /\ {Function_to_code(f) : f \in Functions} = FunctionCodes
    /\ \A f, g \in Functions :
          Function_to_code(f) = Function_to_code(g) => f = g
    /\ \A f \in Functions : Function_try_from(Function_to_code(f)) = f
    /\ \A b \in 0..255 :
          b \notin FunctionCodes => Function_try_from(b) = "Err"
    /\ (Probed("function") /\ ProtocolOf(dec) = "Tcp" /\ probe.byte < 128) =>
          IF probe.byte \in FunctionCodes
          THEN /\ result.out = "Some"
               /\ Function_to_code(result.item.head.function) = probe.byte
          ELSE result.out = "Err"

\* the TCP server decoder read function byte 0x10 and returned a
\* write-multiple-holding-registers request
FunctionCodeBijectionWitness ==
    /\ Probed("function")
    /\ dec = "TcpServer"
    /\ probe.byte = 16
    /\ result.out = "Some"
    /\ result.item.head.function = "WriteMultipleHoldingRegisters"
    /\ Function_to_code(result.item.head.function) = 16

----------------------------------------------------------------------------
(* Properties of the id table across builder calls *)

\* a builder of Frame has just returned a frame for unit id a
BuiltFor(a) ==
    /\ calls'[a] = calls[a] + 1
    /\ pc' = "built"
    /\ builder' = "Frame"

\* the entry of unit id b is what it was
EntryKept(b) ==
    /\ (b \in DOMAIN tid_map') = (b \in DOMAIN tid_map)
    /\ b \in DOMAIN tid_map => tid_map'[b] = tid_map[b]

\* C22: a builder call for unit id a leaves the table entry of every unit
\* id b # a unchanged and, on a TCP Frame, sets the entry of a to the id it
\* returned; the first build for a unit id returns 1 however many ids were
\* issued for other unit ids.
PerUnitIndependence ==
    [][\A a \in UIDs :
          BuiltFor(a) =>
             /\ \A b \in UIDs \ {a} : EntryKept(b)
             /\ DOMAIN tid_map' \subseteq DOMAIN tid_map \cup {a}
             /\ version = "Tcp" =>
                   /\ a \in DOMAIN tid_map'
                   /\ tid_map'[a] = frame'.head.tid
                   /\ a \notin DOMAIN tid_map => frame'.head.tid = 1]_vars

\* the first build for unit id 10 returned 1 after an id was issued for unit
\* id 1, whose entry is as it was
PerUnitIndependenceWitness ==
    /\ version = "Tcp"
    /\ calls[1] = 1
    /\ calls[10] = 1
    /\ calls[11] = 0
    /\ builder = "Frame"
    /\ frame.head.uid = 10
    /\ frame.head.tid = 1
    /\ tid_map[1] = 1
    /\ tid_map[10] = 1
    /\ 11 \notin DOMAIN tid_map

----------------------------------------------------------------------------
(* Properties of the decoders on the buffer they are given *)

\* C23: for both TcpClientCodec and TcpServerCodec, a decode call on a
\* buffer holding fewer than 8 bytes (0..7) returns need-more-input and
\* leaves the buffer contents unchanged.
TcpHeaderThreshold ==
    (decodes = 1 /\ dec \in {"TcpClient", "TcpServer"} /\ Len(src0) < 8) =>
        result.out = "None" /\ buf = src0

\* C24: whenever an RTU decode call (client or server codec) returns
\* need-more-input, the buffer is byte for byte what it was before the call:
\* the 2 head bytes and a peeked count byte are not consumed.
RtuProbeThenConsume ==
    (decodes >= 1 /\ dec \in RtuCodecs /\ result.out = "None") => buf = src0

\* C25: every frame returned by a TCP decoder was parsed from exactly
\* length - 2 body bytes with none left over: head.length of the returned
\* value is 2 + the encoded length of its body and, for a body with a
\* byte-count field, the count is the number of values; an input whose
\* length field disagrees with the function's body layout is not returned as
\* a frame.
TcpBodyExact ==
    (decodes = 1 /\ dec \in {"TcpClient", "TcpServer"} /\ result.out = "Some") =>
        LET item == result.item
        IN  /\ Len(Consumed) = 6 + item.head.length
            /\ item.head.length = 2 + Len(BodyBytes(item))
            /\ "values" \in DOMAIN item.body =>
                  item.body.bytes_number = Len(item.body.values)

\* C29: no Request returned by TcpServerCodec or RtuServerCodec has
\* head.is_exception set: a request-side input whose function byte has the
\* top bit set is not returned as a request frame.
RequestsNeverExceptions ==
    (decodes >= 1 /\ dec \in {"TcpServer", "RtuServer"} /\ result.out = "Some") =>
        /\ result.item.kind = "Request"
        /\ ~result.item.head.is_exception

\* C28: on a TCP Frame every builder call (request, response or
\* exception_response) for a unit id advances that unit's counter by one: in
\* any interleaving of builder calls on a new builder the k-th call for a
\* unit id carries transaction id k, so that a response carries the
\* builder's next id, not the id of the request it answers.
SharedIdCounter ==
    /\ []((version = "Tcp" /\ pc = "built" /\ builder = "Frame") =>
            /\ frame.head.tid = calls[frame.head.uid]
            /\ tid_map[frame.head.uid] = calls[frame.head.uid])
    /\ [][\A a \in UIDs :
             (version = "Tcp" /\ BuiltFor(a)) =>
                /\ frame'.head.uid = a
                /\ frame'.head.tid = (IF a \in DOMAIN tid_map THEN tid_map[a] ELSE 0) + 1]_vars

\* the second builder call for unit id 1 on a new TCP Frame, an exception
\* response, carries transaction id 2
SharedIdCounterWitness ==
    /\ version = "Tcp"
    /\ pc = "built"
    /\ builder = "Frame"
    /\ frame.kind = "Response"
    /\ frame.variant = "Exception"
    /\ frame.head.uid = 1
    /\ frame.head.tid = 2
    /\ calls[1] = 2
    /\ calls[10] = 0

----------------------------------------------------------------------------
(* Properties of a line that carries several frames *)

\* the encodings of frames fs, each made in an empty buffer, one after the
\* other
RECURSIVE Joined(_)
Joined(fs) ==
    IF fs = <<>> THEN <<>>
    ELSE Encoded(enc, Head(fs), <<>>) \o Joined(Tail(fs))

\* the frames after the first k
After(k) == SubSeq(sent, k + 1, Len(sent))

\* call k on the delivered line returned frame k and removed exactly its
\* bytes; the call after the last frame returned need-more-input
InOrder ==
    \A k \in 1..Len(outs) :
       IF k <= Len(sent)
       THEN outs[k] = DecSome(sent[k], Joined(After(k)))
       ELSE outs[k] = DecNone(<<>>)

\* C26: when the buffer holds the encodings of two valid frames concatenated
\* (TCP or RTU), the first decode call returns the first frame and removes
\* exactly its bytes, the second call returns the second frame, and a third
\* call on the now-empty buffer returns need-more-input: frames come out in
\* the order their bytes arrived, at most one per call.
BackToBackFrames ==
    (probe = NoProbe /\ pc \in {"delivered", "decoded"}) =>
        /\ Len(outs) = 0 => buf = Joined(sent)
        /\ InOrder
        /\ Len(outs) > 0 => buf = outs[Len(outs)].rest

\* two different RTU frames came out of one buffer in their order and the
\* third call returned need-more-input
BackToBackFramesWitness ==
    /\ probe = NoProbe
    /\ version = "Rtu"
    /\ Len(sent) = 2
    /\ Len(outs) = 3
    /\ outs[1].out = "Some"
    /\ outs[1].item.variant = "WriteMultipleCoils"
    /\ outs[2].out = "Some"
    /\ outs[2].item.variant = "ReadCoils"
    /\ outs[3].out = "None"
    /\ buf = <<>>

\* C27: for every codec and frame, encode leaves the bytes already in dst
\* unchanged and appends exactly the bytes it would write into an empty
\* buffer: encoding frames A then B into the same buffer yields
\* encode(A) ++ encode(B), and decoding that buffer returns A then B (for
\* RTU each frame's CRC covers only its own bytes).
EncodeIndependentOfBuffer ==
    /\ pc = "encoded" => buf = dst0 \o Encoded(enc, frame, <<>>)
    /\ (probe = Kept /\ pc \in {"delivered", "decoded"}) => InOrder

\* the body length RTU decoder c infers from the bytes of src
InferredLen(c, src) ==
    LET head0 == Head_rtu_try_from(Take(src, 2))
    IN  IF c = "RtuClient" THEN RtuClientBodyLen(head0, Drop(src, 2))
        ELSE RtuServerBodyLen(head0, Drop(src, 2))

\* what call k found in the buffer: the line for the first call, what the
\* call before left for the others
Found(k) == IF k = 1 THEN Joined(sent) ELSE outs[k - 1].rest

\* C30: when an RTU decoder returns the invalid-checksum error for a buffer
\* holding a complete but corrupted frame of inferred body length N, it has
\* removed exactly that frame's 2 + N + 2 bytes and left all later bytes
\* untouched, so a valid frame that follows those bytes is returned by the
\* next decode call; the decoder removes nothing more in search of a frame.
AfterChecksumFailure ==
    /\ (pc = "decoded" /\ result.err = "InvalidChecksum") =>
           /\ dec \in RtuCodecs
           /\ Len(src0) >= 2 + InferredLen(dec, src0) + 2
           /\ buf = Drop(src0, 2 + InferredLen(dec, src0) + 2)
    /\ \A k \in 1..Len(outs) :
          (/\ k < Len(outs)
           /\ k < Len(sent)
           /\ outs[k].err = "InvalidChecksum"
           /\ outs[k].rest = Joined(After(k)))
          => outs[k + 1] = DecSome(sent[k + 1], Joined(After(k + 1)))

\* the first frame of a line of two was damaged, the first call returned the
\* invalid-checksum error and the second call returned the second frame
AfterChecksumFailureWitness ==
    /\ probe.kind = "corrupt"
    /\ Len(sent) >= 2
    /\ Len(outs) >= 2
    /\ outs[1].err = "InvalidChecksum"
    /\ outs[1].rest # <<>>
    /\ outs[2].out = "Some"
    /\ outs[2].item = sent[2]

====
